---- MODULE Spec2Model ----
(***************************************************************************)
(* The Omada API client of src/omada.py as a state machine.                *)
(*                                                                         *)
(* The state is one client object (config, token, baseurl, site,           *)
(* warnings) plus a record of the last call made on it: the requests the   *)
(* call handed to the session, the response the controller gave, and       *)
(* whether the call returned a value or raised.  Every public method is    *)
(* one action; the controller's response and the caller's arguments are    *)
(* the inputs, drawn from the bounded sets below.                          *)
(*                                                                         *)
(* The requests.Session (cookies, TLS verify flag) is the transport and is *)
(* represented only by the requests handed to it.                          *)
(***************************************************************************)
EXTENDS Integers, Sequences, FiniteSets, TLC

(***************************************************************************)
(* Python values.  Every value carries its type, so that None, a string,   *)
(* an integer, a list and a dict are pairwise different.                   *)
(***************************************************************************)
None == [kind |-> "None"]

PyStr(s) == [kind |-> "str", s |-> s]

PyInt(n) == [kind |-> "int", n |-> n]

PyList(elems) == [kind |-> "list", elems |-> elems]

PyDict(f) == [kind |-> "dict", items |-> f]

\* key in d, for a dict d
Has(d, key) == key \in DOMAIN d.items

\* d[key], for a dict d that has the key
Item(d, key) == d.items[key]

\* x in v, as Python evaluates it for the values of this model
Contains(v, x) ==
    IF v.kind = "dict" THEN x \in DOMAIN v.items
    ELSE IF v.kind = "list" THEN \E i \in 1..Len(v.elems) : v.elems[i] = PyStr(x)
    ELSE FALSE

\* the dict d without the key (del d[key])
Without(d, key) == PyDict([k \in (DOMAIN d.items) \ {key} |-> d.items[k]])

\* f'{v}'
Format(v) ==
    IF v.kind = "str" THEN v.s
    ELSE IF v.kind = "int" THEN ToString(v.n)
    ELSE "None"

(***************************************************************************)
(* Outcome of a call: the requests it handed to the session, and either    *)
(* the value it returned or the exception it raised.                       *)
(***************************************************************************)
NoError == [type |-> "none"]

Exc(type) == [type |-> type]

Returned(sent, v) == [sent |-> sent, outcome |-> "return", value |-> v, error |-> NoError]

Raised(sent, e) == [sent |-> sent, outcome |-> "raise", value |-> None, error |-> e]

(***************************************************************************)
(* Bounds and input sets.                                                  *)
(***************************************************************************)
MaxTimestamp == 1

Timestamps == 1..MaxTimestamp

Tokens == {PyStr("t1"), PyStr("t2")}

StatusCodes == {200, 300, 404}

ErrorCodes == {0, -1001}

\* the results a controller may put in an envelope ("absent" is a missing key)
Results ==
    { None,
      PyDict("token" :> PyStr("t1")),
      PyDict("token" :> PyStr("t2")),
      PyDict("data" :> PyList(<<PyStr("g1")>>)),
      PyDict(("beaconControl" :> PyStr("on")) @@ ("name" :> PyStr("hq"))),
      PyList(<<PyStr("beaconControl")>>) }

Envelope(code, msgs, results) ==
    PyDict( ("errorCode" :> PyInt(code))
         @@ [k \in {"msg"} \cap msgs |-> PyStr("denied")]
         @@ [k \in {"result"} \cap DOMAIN results |-> results[k]] )

\* {errorCode, msg?, result?}: success envelopes with every result, error
\* envelopes with and without msg and result
Envelopes ==
    { Envelope(0, {}, <<>>) }
    \cup { Envelope(0, {}, "result" :> r) : r \in Results }
    \cup { Envelope(0, {"msg"}, "result" :> PyDict("name" :> PyStr("hq"))) }
    \cup { Envelope(c, m, <<>>) : c \in ErrorCodes \ {0}, m \in {{}, {"msg"}} }
    \cup { Envelope(c, {"msg"}, "result" :> PyDict("name" :> PyStr("hq"))) :
              c \in ErrorCodes \ {0} }

\* bodies sent along with a status other than 200
ErrorPageEnvelopes ==
    { Envelope(0, {}, "result" :> PyDict("name" :> PyStr("hq"))),
      Envelope(-1001, {"msg"}, <<>>) }

Responses ==
    { [status |-> 200, json |-> e] : e \in Envelopes }
    \cup { [status |-> s, json |-> e] : s \in StatusCodes \ {200}, e \in ErrorPageEnvelopes }

NoResponse == [status |-> 0]

(***************************************************************************)
(* The request primitive.                                                  *)
(***************************************************************************)
ApiPath == "/api/v2"

\* OmadaError.__init__: errorCode and msg are taken from the envelope, msg
\* enclosed in double quotes
OmadaError_unquoted(json) ==
    [ type |-> "OmadaError",
      errorCode |-> IF Has(json, "errorCode") THEN Item(json, "errorCode") ELSE PyInt(0),
      msg |-> IF Has(json, "msg") THEN Item(json, "msg") ELSE None ]

OmadaError(json) ==
    [ type |-> "OmadaError",
      errorCode |-> IF Has(json, "errorCode") THEN Item(json, "errorCode") ELSE PyInt(0),
      msg |-> IF Has(json, "msg")
              THEN PyStr("\"" \o Item(json, "msg").s \o "\"")
              ELSE None ]

\* url_for: baseurl + ApiPath + path, for a baseurl that is a string
url_for(base, path) == base.s \o ApiPath \o path

\* requests' Response.raise_for_status: raises HTTPError for 4xx and 5xx
raise_for_status_5xx(status) == 500 <= status /\ status < 600

raise_for_status(status) == 400 <= status /\ status < 600

\* the query parameters of a request: token and timestamp, when the caller
\* gave none and a token is stored
AutoParams_never(params, tok, ts) == params

AutoParams(params, tok, ts) ==
    IF params = None /\ tok # None
    THEN PyDict(("token" :> tok) @@ ("_" :> PyInt(ts)))
    ELSE params

\* the envelope of a response: result (or None) on errorCode 0, OmadaError
\* otherwise
Unwrap_envelope(sent, json) ==
    IF Item(json, "errorCode") = PyInt(0)
    THEN Returned(sent, json)
    ELSE Raised(sent, OmadaError(json))

Unwrap(sent, json) ==
    IF Item(json, "errorCode") = PyInt(0)
    THEN Returned(sent, IF Has(json, "result") THEN Item(json, "result") ELSE None)
    ELSE Raised(sent, OmadaError(json))

\* one request through the session: self.baseurl + ... raises TypeError for
\* a baseurl of None, before anything is sent
Request(verb, base, tok, path, params, json, ts, resp) ==
    LET p == AutoParams(params, tok, ts)
    IN  IF base = None
        THEN Raised(<<>>, Exc("TypeError"))
        ELSE LET req == [verb |-> verb, url |-> url_for(base, path),
                         params |-> p, json |-> json]
             IN  IF raise_for_status(resp.status)
                 THEN Raised(<<req>>, Exc("HTTPError"))
                 ELSE Unwrap(<<req>>, resp.json)

get(base, tok, path, params, json, ts, resp) ==
    Request("GET", base, tok, path, params, json, ts, resp)

post(base, tok, path, params, json, ts, resp) ==
    Request("POST", base, tok, path, params, json, ts, resp)

patch(base, tok, path, params, json, ts, resp) ==
    Request("PATCH", base, tok, path, params, json, ts, resp)

\* result[key] on the value a call returned
Subscript(r, key) ==
    IF r.outcome = "raise" THEN r
    ELSE IF r.value.kind = "dict"
         THEN IF Has(r.value, key)
              THEN Returned(r.sent, Item(r.value, key))
              ELSE Raised(r.sent, Exc("KeyError"))
         ELSE Raised(r.sent, Exc("TypeError"))

(***************************************************************************)
(* Configuration sources and construction.                                 *)
(***************************************************************************)
NoFile == [exists |-> FALSE]

ConfigValues ==
    ("baseurl" :> "https://omada.cfg") @@ ("site" :> "lab") @@ ("warnings" :> "no")
    @@ ("username" :> "admin") @@ ("password" :> "secret")

\* the [omada] sections a configuration file may hold
OmadaSections ==
    { [k \in K |-> ConfigValues[k]] :
          K \in { {}, {"baseurl"}, {"username", "password"}, DOMAIN ConfigValues } }

ConfigFiles ==
    { NoFile, [exists |-> TRUE, sections |-> <<>>] }
    \cup { [exists |-> TRUE, sections |-> ("omada" :> e)] : e \in OmadaSections }

BaseurlArgs == {None, PyStr("https://omada.arg")}

SiteArgs == {PyStr("Default")}

\* self.config['omada'].get(key, default)
ConfigGet(cfg, key, default) ==
    IF key \in DOMAIN cfg.sections["omada"]
    THEN PyStr(cfg.sections["omada"][key])
    ELSE default

\* self.config['omada'].getboolean(key, default)
ConfigGetBoolean(cfg, key, default) ==
    IF key \in DOMAIN cfg.sections["omada"]
    THEN cfg.sections["omada"][key] \in {"1", "yes", "true", "on"}
    ELSE default

\* Omada.__init__(config=file, baseurl, site, warnings)
OmadaInit(file, baseurlArg, siteArg, warningsArg) ==
    IF baseurlArg # None
    THEN [ r |-> Returned(<<>>, None), config |-> None, token |-> None,
           baseurl |-> baseurlArg, site |-> siteArg, warnings |-> warningsArg ]
    ELSE IF file.exists
    THEN LET cfg == [kind |-> "ConfigParser", sections |-> file.sections]
         IN  IF "omada" \in DOMAIN file.sections
             THEN [ r |-> Returned(<<>>, None), config |-> cfg, token |-> None,
                    baseurl |-> ConfigGet(cfg, "baseurl", None),
                    site |-> ConfigGet(cfg, "site", PyStr("Default")),
                    warnings |-> ConfigGetBoolean(cfg, "warnings", TRUE) ]
             ELSE [ r |-> Raised(<<>>, Exc("KeyError")), config |-> cfg, token |-> None,
                    baseurl |-> None, site |-> None, warnings |-> TRUE ]
    ELSE [ r |-> Raised(<<>>, Exc("FileNotFoundError")), config |-> None, token |-> None,
           baseurl |-> None, site |-> None, warnings |-> TRUE ]

(***************************************************************************)
(* Authentication methods.                                                 *)
(***************************************************************************)
Usernames == {None, PyStr("root")}

Passwords == {None, PyStr("hunter2")}

\* login: the token is stored only after post returned a result with a token
login_clears(cfg, base, tok, username, password, ts, resp) ==
    LET omitted == username = None /\ password = None
    IN  IF omitted /\ cfg = None
        THEN [r |-> Raised(<<>>, Exc("TypeError")), token |-> tok]
        ELSE LET u == IF omitted THEN ConfigGet(cfg, "username", None) ELSE username
                 p == IF omitted THEN ConfigGet(cfg, "password", None) ELSE password
                 r == post(base, tok, "/login", None,
                           PyDict(("username" :> u) @@ ("password" :> p)), ts, resp)
                 t == Subscript(r, "token")
             IN  IF t.outcome = "raise"
                 THEN [r |-> t, token |-> None]
                 ELSE [r |-> r, token |-> t.value]

login(cfg, base, tok, username, password, ts, resp) ==
    LET omitted == username = None /\ password = None
    IN  IF omitted /\ cfg = None
        THEN [r |-> Raised(<<>>, Exc("TypeError")), token |-> tok]
        ELSE LET u == IF omitted THEN ConfigGet(cfg, "username", None) ELSE username
                 p == IF omitted THEN ConfigGet(cfg, "password", None) ELSE password
                 r == post(base, tok, "/login", None,
                           PyDict(("username" :> u) @@ ("password" :> p)), ts, resp)
                 t == Subscript(r, "token")
             IN  IF t.outcome = "raise"
                 THEN [r |-> t, token |-> tok]
                 ELSE [r |-> r, token |-> t.value]

logout(base, tok, ts, resp) == post(base, tok, "/logout", None, None, ts, resp)

getLoginStatus(base, tok, ts, resp) == get(base, tok, "/loginStatus", None, None, ts, resp)

getCurrentUser(base, tok, ts, resp) == get(base, tok, "/users/current", None, None, ts, resp)

(***************************************************************************)
(* Resource accessors.                                                     *)
(***************************************************************************)
IPGroup == 0

PortGroup == 1

MACGroup == 2

GroupTypes == {None, PyInt(IPGroup), PyInt(PortGroup), PyInt(MACGroup)}

Groups == {PyStr("g1")}

\* if site is None: site = self.site
SiteOr(selfsite, s) == IF s = None THEN selfsite ELSE s

getSiteGroups(base, tok, selfsite, s, type, ts, resp) ==
    LET sv == SiteOr(selfsite, s)
        result == IF type = None
                  THEN get(base, tok, "/sites/" \o Format(sv) \o "/setting/profiles/groups",
                           None, None, ts, resp)
                  ELSE get(base, tok, "/sites/" \o Format(sv) \o "/setting/profiles/groups/"
                                      \o Format(type), None, None, ts, resp)
    IN  Subscript(result, "data")

getPortalCandidates(base, tok, selfsite, s, ts, resp) ==
    get(base, tok, "/sites/" \o Format(SiteOr(selfsite, s)) \o "/setting/portal/candidates",
        None, None, ts, resp)

getRadiusProfiles(base, tok, selfsite, s, ts, resp) ==
    get(base, tok, "/sites/" \o Format(SiteOr(selfsite, s)) \o "/setting/radiusProfiles",
        None, None, ts, resp)

getScenarios(base, tok, ts, resp) == get(base, tok, "/scenarios", None, None, ts, resp)

getSiteDevices(base, tok, selfsite, s, ts, resp) ==
    get(base, tok, "/sites/" \o Format(SiteOr(selfsite, s)) \o "/devices",
        None, None, ts, resp)

getSiteClients(base, tok, selfsite, s, ts, resp) ==
    get(base, tok, "/sites/" \o Format(SiteOr(selfsite, s))
                   \o "/clients?currentPageSize=999&currentPage=1&filters.active=true",
        None, None, ts, resp)

\* getSiteSettings: 'beaconControl' in result raises TypeError for None, and
\* del result['beaconControl'] raises TypeError for a list
getSiteSettings_keeps(base, tok, selfsite, warn, s, ts, resp) ==
    LET result == get(base, tok, "/sites/" \o Format(SiteOr(selfsite, s)) \o "/setting",
                      None, None, ts, resp)
    IN  IF result.outcome = "raise" THEN [r |-> result, warned |-> FALSE]
        ELSE IF result.value = None
             THEN [r |-> Raised(result.sent, Exc("TypeError")), warned |-> FALSE]
        ELSE [r |-> result, warned |-> FALSE]

getSiteSettings(base, tok, selfsite, warn, s, ts, resp) ==
    LET result == get(base, tok, "/sites/" \o Format(SiteOr(selfsite, s)) \o "/setting",
                      None, None, ts, resp)
    IN  IF result.outcome = "raise" THEN [r |-> result, warned |-> FALSE]
        ELSE IF result.value = None
             THEN [r |-> Raised(result.sent, Exc("TypeError")), warned |-> FALSE]
        ELSE IF Contains(result.value, "beaconControl")
             THEN IF result.value.kind = "dict"
                  THEN [r |-> Returned(result.sent, Without(result.value, "beaconControl")),
                        warned |-> warn]
                  ELSE [r |-> Raised(result.sent, Exc("TypeError")), warned |-> warn]
        ELSE [r |-> result, warned |-> FALSE]

\* the settings a caller may push back
SettingsArgs ==
    { PyDict(("beaconControl" :> PyStr("on")) @@ ("name" :> PyStr("hq"))),
      PyDict("name" :> PyStr("branch")) }

setSiteSettings(base, tok, selfsite, warn, settings, s, ts, resp) ==
    LET has == Contains(settings, "beaconControl")
        body == IF has THEN Without(settings, "beaconControl") ELSE settings
    IN  [ r |-> patch(base, tok, "/sites/" \o Format(SiteOr(selfsite, s)) \o "/setting",
                      None, body, ts, resp),
          warned |-> has /\ warn ]

getTimeRanges(base, tok, selfsite, s, ts, resp) ==
    get(base, tok, "/sites/" \o Format(SiteOr(selfsite, s)) \o "/setting/profiles/timeranges",
        None, None, ts, resp)

getWirelessGroups(base, tok, selfsite, s, ts, resp) ==
    Subscript(get(base, tok, "/sites/" \o Format(SiteOr(selfsite, s)) \o "/setting/wlans",
                  None, None, ts, resp), "data")

getWirelessNetworks(base, tok, selfsite, group, s, ts, resp) ==
    Subscript(get(base, tok, "/sites/" \o Format(SiteOr(selfsite, s)) \o "/setting/wlans/"
                             \o Format(group) \o "/ssids", None, None, ts, resp), "data")

Sites == {PyStr("office")}

VARIABLES phase, config, token, baseurl, site, warnings, last, lastLogin

vars == <<phase, config, token, baseurl, site, warnings, last, lastLogin>>

(***************************************************************************)
(* The state machine.                                                      *)
(*   phase     "ready" for a constructed client, "failed" when __init__    *)
(*             raised (no client exists then)                              *)
(*   config, token, baseurl, site, warnings   the client's attributes      *)
(*   last      the last call: method, arguments, requests handed to the    *)
(*             session, response, outcome                                  *)
(*   lastLogin the token in the result of the most recent login that       *)
(*             returned (None before the first)                            *)
(***************************************************************************)
MkLast(method, args, r, resp, warned) ==
    [ method |-> method, args |-> args, sent |-> r.sent,
      resp |-> IF Len(r.sent) = 0 THEN NoResponse ELSE resp,
      outcome |-> r.outcome, value |-> r.value, error |-> r.error,
      warned |-> warned ]

NoArgs == [none |-> TRUE]

SiteArg(s) == [site |-> s]

Init ==
    \E file \in ConfigFiles, b \in BaseurlArgs, s \in SiteArgs, w \in BOOLEAN :
        LET c == OmadaInit(file, b, s, w)
        IN  /\ phase = IF c.r.outcome = "return" THEN "ready" ELSE "failed"
            /\ config = c.config
            /\ token = c.token
            /\ baseurl = c.baseurl
            /\ site = c.site
            /\ warnings = c.warnings
            /\ last = MkLast("__init__", [config |-> file, baseurl |-> b], c.r, NoResponse, FALSE)
            /\ lastLogin = None

\* a call that leaves the client's attributes alone
Do(method, args, r, resp, warned) ==
    /\ phase = "ready"
    /\ last' = MkLast(method, args, r, resp, warned)
    /\ UNCHANGED <<phase, config, token, baseurl, site, warnings, lastLogin>>

Paths == {"/scenarios"}

ParamsArgs == {None, PyDict("currentPage" :> PyStr("1"))}

Call_get ==
    \E path \in Paths, params \in ParamsArgs, ts \in Timestamps, resp \in Responses :
        Do("get", [path |-> path, params |-> params],
           get(baseurl, token, path, params, None, ts, resp), resp, FALSE)

Call_post ==
    \E path \in Paths, params \in ParamsArgs, ts \in Timestamps, resp \in Responses :
        Do("post", [path |-> path, params |-> params],
           post(baseurl, token, path, params, None, ts, resp), resp, FALSE)

Call_patch ==
    \E path \in Paths, params \in ParamsArgs, ts \in Timestamps, resp \in Responses :
        Do("patch", [path |-> path, params |-> params],
           patch(baseurl, token, path, params, None, ts, resp), resp, FALSE)

Call_login ==
    \E u \in Usernames, p \in Passwords, ts \in Timestamps, resp \in Responses :
        LET c == login(config, baseurl, token, u, p, ts, resp)
        IN  /\ phase = "ready"
            /\ token' = c.token
            /\ last' = MkLast("login", [username |-> u, password |-> p], c.r, resp, FALSE)
            /\ lastLogin' = IF c.r.outcome = "return" THEN Item(c.r.value, "token")
                            ELSE lastLogin
            /\ UNCHANGED <<phase, config, baseurl, site, warnings>>

Call_logout ==
    \E ts \in Timestamps, resp \in Responses :
        Do("logout", NoArgs, logout(baseurl, token, ts, resp), resp, FALSE)

Call_getLoginStatus ==
    \E ts \in Timestamps, resp \in Responses :
        Do("getLoginStatus", NoArgs, getLoginStatus(baseurl, token, ts, resp), resp, FALSE)

Call_getCurrentUser ==
    \E ts \in Timestamps, resp \in Responses :
        Do("getCurrentUser", NoArgs, getCurrentUser(baseurl, token, ts, resp), resp, FALSE)

Call_getSiteGroups ==
    \E s \in {None} \cup Sites, type \in GroupTypes, ts \in Timestamps, resp \in Responses :
        Do("getSiteGroups", [site |-> s, type |-> type],
           getSiteGroups(baseurl, token, site, s, type, ts, resp), resp, FALSE)

Call_getPortalCandidates ==
    \E s \in {None} \cup Sites, ts \in Timestamps, resp \in Responses :
        Do("getPortalCandidates", SiteArg(s),
           getPortalCandidates(baseurl, token, site, s, ts, resp), resp, FALSE)

Call_getRadiusProfiles ==
    \E s \in {None} \cup Sites, ts \in Timestamps, resp \in Responses :
        Do("getRadiusProfiles", SiteArg(s),
           getRadiusProfiles(baseurl, token, site, s, ts, resp), resp, FALSE)

Call_getScenarios ==
    \E ts \in Timestamps, resp \in Responses :
        Do("getScenarios", NoArgs, getScenarios(baseurl, token, ts, resp), resp, FALSE)

Call_getSiteDevices ==
    \E s \in {None} \cup Sites, ts \in Timestamps, resp \in Responses :
        Do("getSiteDevices", SiteArg(s),
           getSiteDevices(baseurl, token, site, s, ts, resp), resp, FALSE)

Call_getSiteClients ==
    \E s \in {None} \cup Sites, ts \in Timestamps, resp \in Responses :
        Do("getSiteClients", SiteArg(s),
           getSiteClients(baseurl, token, site, s, ts, resp), resp, FALSE)

Call_getSiteSettings ==
    \E s \in {None} \cup Sites, ts \in Timestamps, resp \in Responses :
        LET c == getSiteSettings(baseurl, token, site, warnings, s, ts, resp)
        IN  Do("getSiteSettings", SiteArg(s), c.r, resp, c.warned)

Call_setSiteSettings ==
    \E settings \in SettingsArgs, s \in {None} \cup Sites, ts \in Timestamps,
       resp \in Responses :
        LET c == setSiteSettings(baseurl, token, site, warnings, settings, s, ts, resp)
        IN  Do("setSiteSettings", [settings |-> settings, site |-> s], c.r, resp, c.warned)

Call_getTimeRanges ==
    \E s \in {None} \cup Sites, ts \in Timestamps, resp \in Responses :
        Do("getTimeRanges", SiteArg(s),
           getTimeRanges(baseurl, token, site, s, ts, resp), resp, FALSE)

Call_getWirelessGroups ==
    \E s \in {None} \cup Sites, ts \in Timestamps, resp \in Responses :
        Do("getWirelessGroups", SiteArg(s),
           getWirelessGroups(baseurl, token, site, s, ts, resp), resp, FALSE)

Call_getWirelessNetworks ==
    \E group \in Groups, s \in {None} \cup Sites, ts \in Timestamps, resp \in Responses :
        Do("getWirelessNetworks", [group |-> group, site |-> s],
           getWirelessNetworks(baseurl, token, site, group, s, ts, resp), resp, FALSE)

Next ==
    \/ Call_get
    \/ Call_post
    \/ Call_patch
    \/ Call_login
    \/ Call_logout
    \/ Call_getLoginStatus
    \/ Call_getCurrentUser
    \/ Call_getSiteGroups
    \/ Call_getPortalCandidates
    \/ Call_getRadiusProfiles
    \/ Call_getScenarios
    \/ Call_getSiteDevices
    \/ Call_getSiteClients
    \/ Call_getSiteSettings
    \/ Call_setSiteSettings
    \/ Call_getTimeRanges
    \/ Call_getWirelessGroups
    \/ Call_getWirelessNetworks

Spec == Init /\ [][Next]_vars


(***************************************************************************)
(* Properties.                                                             *)
(***************************************************************************)
\* the last call handed a request to the session and got this answer
Answered == Len(last.sent) > 0

Status2xx == 200 <= last.resp.status /\ last.resp.status < 300

EnvelopeCode == Item(last.resp.json, "errorCode")

\* C1, as stated: a 2xx response whose envelope has errorCode != 0 makes the
\* call raise OmadaError with the envelope's errorCode and the envelope's msg
\* (None when the envelope has no msg)
C1_ErrorReproducesMsg ==
    (Answered /\ Status2xx /\ EnvelopeCode # PyInt(0)) =>
        /\ last.outcome = "raise"
        /\ last.error.type = "OmadaError"
        /\ last.error.errorCode = EnvelopeCode
        /\ last.error.msg = IF Has(last.resp.json, "msg")
                            THEN Item(last.resp.json, "msg")
                            ELSE None

\* C1, amended: a 2xx response whose envelope has errorCode != 0 makes the
\* call raise OmadaError with the envelope's errorCode and, as msg, the
\* envelope's msg enclosed in double quotes (None when the envelope has no
\* msg); nothing is returned
C1_ErrorQuotesMsg ==
    (Answered /\ Status2xx /\ EnvelopeCode # PyInt(0)) =>
        /\ last.outcome = "raise"
        /\ last.value = None
        /\ last.error.type = "OmadaError"
        /\ last.error.errorCode = EnvelopeCode
        /\ last.error.msg = IF Has(last.resp.json, "msg")
                            THEN PyStr("\"" \o Item(last.resp.json, "msg").s \o "\"")
                            ELSE None

C1_Witness ==
    /\ Answered /\ Status2xx
    /\ EnvelopeCode = PyInt(-1001)
    /\ Has(last.resp.json, "msg")
    /\ last.outcome = "raise"
    /\ last.error.type = "OmadaError"

\* C2: a 2xx response whose envelope has errorCode == 0 makes get, post and
\* patch return the envelope's result when the key is present and None when
\* it is absent, never the envelope itself, and never raise
C2_SuccessReturnsResult ==
    (last.method \in {"get", "post", "patch"} /\ Answered /\ Status2xx
        /\ EnvelopeCode = PyInt(0)) =>
        /\ last.outcome = "return"
        /\ last.error = NoError
        /\ last.value # last.resp.json
        /\ last.value = IF Has(last.resp.json, "result")
                        THEN Item(last.resp.json, "result")
                        ELSE None

C2_Witness ==
    /\ last.method = "patch"
    /\ Answered /\ Status2xx
    /\ EnvelopeCode = PyInt(0)
    /\ Has(last.resp.json, "result")
    /\ last.outcome = "return"
    /\ last.value.kind = "dict"

\* the call recorded in l was made without explicit query parameters
NoExplicitParams(l) == l.method \in {"get", "post", "patch"} => l.args.params = None

\* C3: a request issued without explicit query parameters carries the token
\* stored when it is issued and a numeric "_" if that token is not None, and
\* no parameters if it is None; the stored token is the one returned by the
\* most recent login that succeeded
C3_RequestCarriesToken ==
    /\ [](phase = "ready" => token = lastLogin)
    /\ [][ \A i \in 1..Len(last'.sent) :
              NoExplicitParams(last') =>
                 IF token # None
                 THEN /\ last'.sent[i].params.kind = "dict"
                      /\ DOMAIN last'.sent[i].params.items = {"token", "_"}
                      /\ Item(last'.sent[i].params, "token") = token
                      /\ Item(last'.sent[i].params, "_").kind = "int"
                 ELSE last'.sent[i].params = None ]_vars

C3_Witness ==
    /\ last.method = "getCurrentUser"
    /\ last.outcome = "return"
    /\ lastLogin = PyStr("t2")
    /\ Answered
    /\ last.sent[1].params # None
    /\ Item(last.sent[1].params, "token") = PyStr("t2")

\* C4: after a logout that returned, the client holds no token
C4_LogoutDropsToken ==
    (last.method = "logout" /\ last.outcome = "return") => token = None

\* C5: login never posts a request whose username or password is None, and a
\* login without arguments on a client that has no configured credentials
\* raises TypeError without a request
C5_LoginRequiresCredentials ==
    last.method = "login" =>
        /\ \A i \in 1..Len(last.sent) :
              /\ Item(last.sent[i].json, "username") # None
              /\ Item(last.sent[i].json, "password") # None
        /\ ( /\ last.args.username = None
             /\ last.args.password = None
             /\ \/ config = None
                \/ ConfigGet(config, "username", None) = None
                \/ ConfigGet(config, "password", None) = None )
           => (Len(last.sent) = 0 /\ last.outcome = "raise")

\* C6: a logout that returns, returns None
C6_LogoutReturnsNone ==
    (last.method = "logout" /\ last.outcome = "return") => last.value = None

\* the result in the envelope of the last response
EnvelopeResult == Item(last.resp.json, "result")

\* dict d is dict e without the key beaconControl
Stripped(d, e) ==
    /\ d.kind = "dict"
    /\ DOMAIN d.items = (DOMAIN e.items) \ {"beaconControl"}
    /\ \A k \in DOMAIN d.items : d.items[k] = e.items[k]

\* C7: what getSiteSettings returns, and the body setSiteSettings sends, has
\* no key beaconControl and is otherwise the settings object unchanged
C7_BeaconControlStripped ==
    /\ (last.method = "getSiteSettings" /\ last.outcome = "return") =>
          /\ ~Contains(last.value, "beaconControl")
          /\ EnvelopeResult.kind = "dict" => Stripped(last.value, EnvelopeResult)
    /\ last.method = "setSiteSettings" =>
          \A i \in 1..Len(last.sent) :
              /\ last.sent[i].verb = "PATCH"
              /\ Stripped(last.sent[i].json, last.args.settings)

C7_Witness ==
    /\ last.method = "getSiteSettings"
    /\ last.outcome = "return"
    /\ Has(EnvelopeResult, "beaconControl")
    /\ Has(last.value, "name")

\* C8: a constructed client has a base URL
C8_ConstructedHasBaseurl == phase = "ready" => baseurl # None

\* C9, as stated: a call issues at most one request, and a status outside
\* 2xx makes it raise the transport error
C9_Non2xxRaises ==
    /\ Len(last.sent) <= 1
    /\ (Answered /\ ~Status2xx) =>
          (last.outcome = "raise" /\ last.error.type = "HTTPError")

\* C9, amended: a call issues at most one request and then returns or
\* raises; a 4xx or 5xx status makes it raise the transport error whatever
\* the envelope in the body says
C9_ErrorStatusRaises ==
    /\ Len(last.sent) <= 1
    /\ last.outcome \in {"return", "raise"}
    /\ (Answered /\ 400 <= last.resp.status /\ last.resp.status < 600) =>
          (last.outcome = "raise" /\ last.error.type = "HTTPError")

C9_Witness ==
    /\ Answered
    /\ last.resp.status = 404
    /\ EnvelopeCode = PyInt(0)
    /\ last.outcome = "raise"
    /\ last.error.type = "HTTPError"
    /\ Len(last.sent) = 1

\* C10: only a login that returns changes the token; every other method
\* leaves token, baseurl and site as they were
C10_OnlyLoginChangesToken ==
    [][ /\ token' # token => (last'.method = "login" /\ last'.outcome = "return")
        /\ last'.method # "login" =>
              (token' = token /\ baseurl' = baseurl /\ site' = site) ]_vars

C10_Witness ==
    /\ last.method = "login"
    /\ last.outcome = "raise"
    /\ last.error.type = "KeyError"
    /\ Answered /\ Status2xx
    /\ token = PyStr("t1")

====
